---- MODULE Spec2Model ----
(***************************************************************************)
(* Model of the game-of-life engine (src/matrix.py, class Matrix) and of  *)
(* its step controller (src/game_controller.py, class Controller) as      *)
(* driven by the window callbacks of src/main.py.                          *)
(*                                                                         *)
(* Conventions.  The numpy array self.cells of shape (nb_rows, nb_cols)   *)
(* is a sequence of rows, each a sequence of BOOLEAN: the code's          *)
(* cells[r][c] (0-based) is cells[r + 1][c + 1] here.  Operators that     *)
(* take coordinates (change_cell, add_pattern, the click handler) take    *)
(* the code's 0-based, possibly negative, Python indices.  The rule       *)
(* self._params = [min_alive, max_alive, min_dead, max_dead] is a         *)
(* 4-tuple: the code's _params[k] is params[k + 1].                        *)
(***************************************************************************)
EXTENDS Integers, Sequences, FiniteSets, TLC

VARIABLES
    nb_rows,        \* Matrix.nb_rows
    nb_cols,        \* Matrix.nb_cols
    cells,          \* Matrix.cells
    iteration,      \* Matrix.iteration
    params,         \* Matrix._params
    globals_bound,  \* are the names time and logger bound in matrix.py's globals
    neighbors,      \* value returned by the last call of _nb_alive_neighbors
    is_running,     \* Controller._is_running
    selected_cell,  \* Controller._selected_cell: None or <<x, y>>
    add_pattern_mode, \* ApplicationWindow._add_pattern_mode
    files,          \* the files of data_folder: file name -> content, None if absent
    last            \* the last operation called and the exception it raised

vars == << nb_rows, nb_cols, cells, iteration, params, globals_bound, neighbors,
           is_running, selected_cell, add_pattern_mode, files, last >>

\* Python's None where the other values are tuples or arrays
None == << >>

\* no exception was raised
NoError == "none"

\* no Matrix has been constructed yet
no_engine == cells = None

\* the names of the files of data_folder the model follows
FileNames == { "a.npy" }

\* data_folder does not exist or is empty
NoFiles == [n \in FileNames |-> None]

----------------------------------------------------------------------------
(* Bounds of the model.                                                    *)

\* dense input grids of SpecNeighbors and SpecUpdate: every grid of at most MaxCells cells
MaxCells == 9
\* sparse input grids of SpecNeighbors: up to SparseDim x SparseDim, at most MaxAlive live cells
SparseDim == 6
MaxAlive == 1
\* cap on Matrix.iteration
MaxIter == 4
\* the square grid of SpecGlider
GliderDim == 5
\* engines and patterns of SpecEngine: every shape of at most EngineCells cells
EngineCells == 2
\* grids of SpecMatrix and Spec: up to MaxRows x MaxCols
MaxRows == 2
MaxCols == 2
\* patterns given to add_pattern: up to MaxPat x MaxPat
MaxPat == 2
\* texts given to load_pattern: up to MaxLines lines of up to MaxLineLen characters
MaxLines == 2
MaxLineLen == 2

----------------------------------------------------------------------------
(* Grids.                                                                  *)

Grids(r, c) == [1..r -> [1..c -> BOOLEAN]]

\* the shapes (rows, cols) of at most n cells
Shapes(n) == { d \in (1..n) \X (1..n) : d[1] * d[2] <= n }

Filled(r, c, v) == [i \in 1..r |-> [j \in 1..c |-> v]]

\* the grid of shape (r, c) whose live cells are the 1-based positions in S
GridOf(r, c, S) == [i \in 1..r |-> [j \in 1..c |-> << i, j >> \in S]]

RECURSIVE SubsetsUpTo(_, _)
SubsetsUpTo(S, k) ==
    IF k = 0 THEN { {} }
    ELSE LET prev == SubsetsUpTo(S, k - 1)
         IN  prev \cup { T \cup {x} : T \in prev, x \in S }

SparseGrids(r, c) == { GridOf(r, c, S) : S \in SubsetsUpTo((1..r) \X (1..c), MaxAlive) }

----------------------------------------------------------------------------
(* Matrix._nb_alive_neighbors, src/matrix.py lines 89-139.                 *)

\* a padding of live cells (np.ones) instead of dead ones
ones(n) == [i \in 1..n |-> TRUE]

\* np.zeros(n), cast by np.insert to the bool dtype of the array it is inserted in
zeros(n) == [i \in 1..n |-> FALSE]

rows_cols_to_add ==
    << [top |-> 1,  left |-> 0],
       [top |-> -1, left |-> 0],
       [top |-> 0,  left |-> 1],
       [top |-> 0,  left |-> -1],
       [top |-> 1,  left |-> 1],
       [top |-> -1, left |-> -1],
       [top |-> 1,  left |-> -1],
       [top |-> -1, left |-> 1] >>

\* np.insert(m, idx, row, axis=0): row becomes the row of 0-based index idx
insert_row(m, idx, row) == SubSeq(m, 1, idx) \o << row >> \o SubSeq(m, idx + 1, Len(m))

\* np.insert(m, idx, col, axis=1): col[i] becomes the entry of 0-based index idx of row i
insert_col(m, idx, col) ==
    [i \in 1..Len(m) |-> SubSeq(m[i], 1, idx) \o << col[i] >> \o SubSeq(m[i], idx + 1, Len(m[i]))]

\* m[:-1, :] and m[1:, :]
drop_last_row(m) == SubSeq(m, 1, Len(m) - 1)
drop_first_row(m) == SubSeq(m, 2, Len(m))

\* m[:, :-1] and m[:, 1:]
drop_last_col(m) == [i \in 1..Len(m) |-> SubSeq(m[i], 1, Len(m[i]) - 1)]
drop_first_col(m) == [i \in 1..Len(m) |-> SubSeq(m[i], 2, Len(m[i]))]

\* a shift that wraps the last row round to the top (np.roll) instead of padding
shift_rows_wrap(m, top, rows, cols) ==
    IF top = 1 THEN << m[rows] >> \o SubSeq(m, 1, rows - 1)
    ELSE IF top = -1 THEN SubSeq(m, 2, rows) \o << m[1] >>
    ELSE m

\* lines 117-124: the copy shifted by data.top rows
shift_rows(m, top, rows, cols) ==
    IF top = 1 THEN drop_last_row(insert_row(m, 0, zeros(cols)))
    ELSE IF top = -1 THEN drop_first_row(insert_row(m, rows, zeros(cols)))
    ELSE m

\* lines 126-133: the copy shifted by data.left columns
shift_cols(m, left, rows, cols) ==
    IF left = 1 THEN drop_last_col(insert_col(m, 0, zeros(rows)))
    ELSE IF left = -1 THEN drop_first_col(insert_col(m, cols, zeros(rows)))
    ELSE m

\* lines 114-133: copy_cells after both shifts
copy_cells(m, data, rows, cols) ==
    shift_cols(shift_rows(m, data.top, rows, cols), data.left, rows, cols)

\* line 137: neighbors + copy_cells, an integer matrix plus a boolean one
add_cells(n, m) == [i \in 1..Len(n) |-> [j \in 1..Len(n[i]) |-> n[i][j] + (IF m[i][j] THEN 1 ELSE 0)]]

\* lines 111-139: the loop over the first k entries of rows_cols_to_add
RECURSIVE accumulate(_, _, _, _)
accumulate(m, k, rows, cols) ==
    IF k = 0 THEN [i \in 1..rows |-> [j \in 1..cols |-> 0]]
    ELSE add_cells(accumulate(m, k - 1, rows, cols), copy_cells(m, rows_cols_to_add[k], rows, cols))

nb_alive_neighbors(m, rows, cols) == accumulate(m, Len(rows_cols_to_add), rows, cols)

----------------------------------------------------------------------------
(* Matrix.update, src/matrix.py lines 74-87.                               *)

\* a birth test with exclusive thresholds
being_born_strict(m, nb, p) ==
    [i \in 1..Len(m) |-> [j \in 1..Len(m[i]) |->
        (~m[i][j]) /\ p[3] < nb[i][j] /\ nb[i][j] < p[4]]]

\* line 84
being_born(m, nb, p) ==
    [i \in 1..Len(m) |-> [j \in 1..Len(m[i]) |->
        (~m[i][j]) /\ p[3] <= nb[i][j] /\ nb[i][j] <= p[4]]]

\* a survival test with exclusive thresholds
staying_alive_strict(m, nb, p) ==
    [i \in 1..Len(m) |-> [j \in 1..Len(m[i]) |->
        m[i][j] /\ p[1] < nb[i][j] /\ nb[i][j] < p[2]]]

\* line 85
staying_alive(m, nb, p) ==
    [i \in 1..Len(m) |-> [j \in 1..Len(m[i]) |->
        m[i][j] /\ p[1] <= nb[i][j] /\ nb[i][j] <= p[2]]]

\* line 86: being_born | staying_alive
or_cells(b, s) == [i \in 1..Len(b) |-> [j \in 1..Len(b[i]) |-> b[i][j] \/ s[i][j]]]

\* lines 83-86: the new value of self.cells (nb_live_neighbors is computed once)
next_cells(m, p, rows, cols) ==
    CHOOSE v \in { or_cells(being_born(m, nb, p), staying_alive(m, nb, p)) :
                      nb \in { nb_alive_neighbors(m, rows, cols) } } : TRUE

\* an update that forgets to count the generation
next_iteration_same(it) == it

\* line 87
next_iteration(it) == it + 1

\* update(): line 115 reads the global time, unbound unless matrix.py is the
\* entry script (lines 150-156), before anything is assigned
update ==
    /\ ~no_engine
    /\ IF globals_bound
       THEN /\ iteration < MaxIter
            /\ cells' = next_cells(cells, params, nb_rows, nb_cols)
            /\ iteration' = next_iteration(iteration)
            /\ last' = [op |-> "update", err |-> NoError]
       ELSE /\ UNCHANGED << cells, iteration >>
            /\ last' = [op |-> "update", err |-> "NameError"]
    /\ neighbors' = None
    /\ UNCHANGED << nb_rows, nb_cols, params, globals_bound,
                    is_running, selected_cell, add_pattern_mode, files >>

\* a call of _nb_alive_neighbors() alone: the same unbound name at line 115
call_nb_alive_neighbors ==
    /\ ~no_engine
    /\ IF globals_bound
       THEN /\ neighbors' = nb_alive_neighbors(cells, nb_rows, nb_cols)
            /\ last' = [op |-> "_nb_alive_neighbors", err |-> NoError]
       ELSE /\ neighbors' = None
            /\ last' = [op |-> "_nb_alive_neighbors", err |-> "NameError"]
    /\ UNCHANGED << nb_rows, nb_cols, cells, iteration, params, globals_bound,
                    is_running, selected_cell, add_pattern_mode, files >>

----------------------------------------------------------------------------
(* Matrix.__init__, src/matrix.py lines 37-48.                             *)

\* init_live_pct, in hundredths
PctSet == { -50, 0, 50, 100, 150 }

\* the rules the model constructs engines with; __init__ stores any list
RuleSet ==
    { << 2, 3, 3, 3 >>, << 0, 8, 1, 8 >>, << 1, 5, 2, 2 >>, << 8, 8, 8, 8 >>,
      << 0, 0, 0, 0 >>, << 3, 2, 3, 3 >>, << 2, 3, 4, 3 >>, << -1, 9, 3, 3 >> }

\* line 40
pct_rejected(pct) == pct < 0 \/ 100 < pct

\* lines 42-46: the arrays np.random.choice can return with p = [1 - pct, pct]
random_cells(r, c, pct) ==
    IF pct = 0 THEN { Filled(r, c, FALSE) }
    ELSE IF pct = 100 THEN { Filled(r, c, TRUE) }
    ELSE Grids(r, c)

\* matrix = Matrix(p, r, c, pct), the first statement of either client
\* (src/main.py line 188, src/matrix.py line 161); when the constructor
\* raises there is still no engine
construct(p, r, c, pct) ==
    /\ no_engine
    /\ IF pct_rejected(pct)
       THEN /\ UNCHANGED << nb_rows, nb_cols, cells, iteration, params >>
            /\ last' = [op |-> "__init__", err |-> "ValueError"]
       ELSE /\ nb_rows' = r
            /\ nb_cols' = c
            /\ cells' \in random_cells(r, c, pct)
            /\ iteration' = 0
            /\ params' = p
            /\ last' = [op |-> "__init__", err |-> NoError]
    /\ neighbors' = None
    /\ UNCHANGED << globals_bound, is_running, selected_cell, add_pattern_mode, files >>

\* the program before its first statement
start ==
    /\ nb_rows = 0
    /\ nb_cols = 0
    /\ cells = None
    /\ iteration = 0
    /\ params = None
    /\ globals_bound \in BOOLEAN
    /\ neighbors = None
    /\ is_running = FALSE
    /\ selected_cell = None
    /\ add_pattern_mode = FALSE
    /\ files = NoFiles
    /\ last = [op |-> "start", err |-> NoError]

----------------------------------------------------------------------------
(* Python indexing and slicing of an axis of length n.                     *)

\* a[i] does not raise IndexError
index_ok(i, n) == -n <= i /\ i < n

\* the 1-based position a[i] designates: a negative i counts from the end
py_index(i, n) == IF i < 0 THEN i + n + 1 ELSE i + 1

\* a slice bound clipped into 0..n, a negative one counted from the end
slice_bound(v, n) ==
    IF v < 0 THEN (IF v + n < 0 THEN 0 ELSE v + n)
    ELSE (IF v > n THEN n ELSE v)

----------------------------------------------------------------------------
(* Matrix.change_cell, src/matrix.py lines 64-72.                          *)

\* a change_cell that sets the cell alive instead of negating it
toggled_set(m, x, y) ==
    [m EXCEPT ![py_index(x, Len(m))][py_index(y, Len(m[1]))] = TRUE]

\* line 72: self.cells[x][y] = not self.cells[x][y], for indices that do not raise
toggled(m, x, y) ==
    [m EXCEPT ![py_index(x, Len(m))][py_index(y, Len(m[1]))] = ~@]

\* line 72 raises IndexError
change_cell_raises(x, y) == ~index_ok(x, nb_rows) \/ ~index_ok(y, nb_cols)

change_cell(x, y) ==
    /\ ~no_engine
    /\ IF change_cell_raises(x, y)
       THEN /\ cells' = cells
            /\ last' = [op |-> "change_cell", err |-> "IndexError"]
       ELSE /\ cells' = toggled(cells, x, y)
            /\ last' = [op |-> "change_cell", err |-> NoError]
    /\ neighbors' = None
    /\ UNCHANGED << nb_rows, nb_cols, iteration, params, globals_bound,
                    is_running, selected_cell, add_pattern_mode, files >>

\* change_cell(x, y) called twice in succession
change_cell_twice(x, y) ==
    /\ ~no_engine
    /\ IF change_cell_raises(x, y)
       THEN /\ cells' = cells
            /\ last' = [op |-> "change_cell twice", err |-> "IndexError"]
       ELSE /\ cells' = toggled(toggled(cells, x, y), x, y)
            /\ last' = [op |-> "change_cell twice", err |-> NoError]
    /\ neighbors' = None
    /\ UNCHANGED << nb_rows, nb_cols, iteration, params, globals_bound,
                    is_running, selected_cell, add_pattern_mode, files >>

----------------------------------------------------------------------------
(* Matrix.add_pattern, src/matrix.py lines 58-62.                          *)

\* line 61: width, height = pattern.shape
pattern_width(pattern) == Len(pattern)
pattern_height(pattern) == Len(pattern[1])

\* line 62: the rows x_origin : x_origin + width and the columns
\* y_origin : y_origin + height of self.cells, as 1-based positions lo + 1 .. hi
row_lo(pattern, pos) == slice_bound(pos[1], nb_rows)
row_hi(pattern, pos) == slice_bound(pos[1] + pattern_width(pattern), nb_rows)
col_lo(pattern, pos) == slice_bound(pos[2], nb_cols)
col_hi(pattern, pos) == slice_bound(pos[2] + pattern_height(pattern), nb_cols)

\* the length of the slice lo : hi
slice_len(lo, hi) == IF hi > lo THEN hi - lo ELSE 0

\* line 62: numpy broadcasts the pattern onto the target, an axis of length 1
\* onto any length (0 included), and raises ValueError for any other mismatch
add_pattern_raises(pattern, pos) ==
    \/ ~(pattern_width(pattern) = slice_len(row_lo(pattern, pos), row_hi(pattern, pos))
          \/ pattern_width(pattern) = 1)
    \/ ~(pattern_height(pattern) = slice_len(col_lo(pattern, pos), col_hi(pattern, pos))
          \/ pattern_height(pattern) = 1)

\* an assignment that adds the pattern's live cells and keeps those of the grid
with_pattern_or(m, pattern, pos) ==
    [i \in 1..Len(m) |-> [j \in 1..Len(m[i]) |->
        IF /\ row_lo(pattern, pos) < i /\ i <= row_hi(pattern, pos)
           /\ col_lo(pattern, pos) < j /\ j <= col_hi(pattern, pos)
        THEN m[i][j] \/ pattern[IF pattern_width(pattern) = 1 THEN 1 ELSE i - row_lo(pattern, pos)]
                               [IF pattern_height(pattern) = 1 THEN 1 ELSE j - col_lo(pattern, pos)]
        ELSE m[i][j]]]

\* line 62: the cells after the assignment, when it does not raise
with_pattern(m, pattern, pos) ==
    [i \in 1..Len(m) |-> [j \in 1..Len(m[i]) |->
        IF /\ row_lo(pattern, pos) < i /\ i <= row_hi(pattern, pos)
           /\ col_lo(pattern, pos) < j /\ j <= col_hi(pattern, pos)
        THEN pattern[IF pattern_width(pattern) = 1 THEN 1 ELSE i - row_lo(pattern, pos)]
                    [IF pattern_height(pattern) = 1 THEN 1 ELSE j - col_lo(pattern, pos)]
        ELSE m[i][j]]]

add_pattern(pattern, pos) ==
    /\ ~no_engine
    /\ IF add_pattern_raises(pattern, pos)
       THEN /\ cells' = cells
            /\ last' = [op |-> "add_pattern", err |-> "ValueError"]
       ELSE /\ cells' = with_pattern(cells, pattern, pos)
            /\ last' = [op |-> "add_pattern", err |-> NoError]
    /\ neighbors' = None
    /\ UNCHANGED << nb_rows, nb_cols, iteration, params, globals_bound,
                    is_running, selected_cell, add_pattern_mode, files >>

----------------------------------------------------------------------------
(* load_pattern, src/matrix.py lines 9-17.  A file is the sequence of its  *)
(* lines as readlines() returns them, each a sequence of characters that   *)
(* keeps its line terminator.                                              *)

\* lines 12-15: one field per character of the line, 1 for 'O' and 0 for any
\* other character, the line terminator included
formatted_data(lines) ==
    [k \in 1..Len(lines) |-> [c \in 1..Len(lines[k]) |-> lines[k][c] = "O"]]

\* line 17: np.loadtxt raises ValueError when the rows differ in length
loadtxt_raises(lines) == \E k \in 1..Len(lines) : Len(lines[k]) # Len(lines[1])

\* line 17: np.loadtxt squeezes a single row or a single column to one dimension
loadtxt_one_dimension(lines) == Len(lines) = 1 \/ Len(lines[1]) = 1

\* line 17: the shape of the array np.loadtxt returns, single rows and single
\* columns squeezed away
loadtxt_shape(lines) ==
    IF Len(lines) = 1 /\ Len(lines[1]) = 1 THEN << >>
    ELSE IF Len(lines) = 1 THEN << Len(lines[1]) >>
    ELSE IF Len(lines[1]) = 1 THEN << Len(lines) >>
    ELSE << Len(lines), Len(lines[1]) >>

\* load_pattern(filename) on a file of the given lines; last keeps the
\* lines and the array returned, as its shape and its fields row by row
load_pattern(lines) ==
    /\ last' = IF loadtxt_raises(lines)
               THEN [op |-> "load_pattern", err |-> "ValueError", lines |-> lines,
                     shape |-> None, data |-> None]
               ELSE [op |-> "load_pattern", err |-> NoError, lines |-> lines,
                     shape |-> loadtxt_shape(lines), data |-> formatted_data(lines)]
    /\ UNCHANGED << nb_rows, nb_cols, cells, iteration, params, globals_bound, neighbors,
                    is_running, selected_cell, add_pattern_mode, files >>

----------------------------------------------------------------------------
(* Matrix.save and Matrix.from_filename, src/matrix.py lines 141-147 and   *)
(* 50-56.  A .npy file is its header (descr, fortran_order, shape) and the *)
(* bytes of the array, one per boolean cell, in row-major order.           *)

\* a writer that lays the bytes out column by column under the same header
npy_save_by_columns(m) ==
    [descr |-> "|b1", fortran_order |-> FALSE, shape |-> << Len(m), Len(m[1]) >>,
     data |-> [k \in 1..(Len(m) * Len(m[1])) |->
                 IF m[((k - 1) % Len(m)) + 1][((k - 1) \div Len(m)) + 1] THEN 1 ELSE 0]]

\* line 147: np.save(file_handler, self.cells)
npy_save(m) ==
    [descr |-> "|b1", fortran_order |-> FALSE, shape |-> << Len(m), Len(m[1]) >>,
     data |-> [k \in 1..(Len(m) * Len(m[1])) |->
                 IF m[((k - 1) \div Len(m[1])) + 1][((k - 1) % Len(m[1])) + 1] THEN 1 ELSE 0]]

\* line 55: np.load(file_handler), the array of the header's shape
npy_load(f) ==
    [i \in 1..f.shape[1] |-> [j \in 1..f.shape[2] |->
        f.data[(i - 1) * f.shape[2] + j] # 0]]

\* Matrix.save(filename): lines 142-144 create data_folder when it is absent
save(filename) ==
    /\ ~no_engine
    /\ files' = [files EXCEPT ![filename] = npy_save(cells)]
    /\ last' = [op |-> "save", err |-> NoError]
    /\ neighbors' = None
    /\ UNCHANGED << nb_rows, nb_cols, cells, iteration, params, globals_bound,
                    is_running, selected_cell, add_pattern_mode >>

\* matrix = Matrix.from_filename(p, r, c, filename): line 52 constructs an
\* all-dead engine of r x c, line 54 raises FileNotFoundError when the file
\* is absent (the client's engine is then the one it had), line 55 replaces
\* the cells by the loaded array
from_filename(p, r, c, filename) ==
    /\ IF filename \notin DOMAIN files \/ files[filename] = None
       THEN /\ UNCHANGED << nb_rows, nb_cols, cells, iteration, params >>
            /\ last' = [op |-> "from_filename", err |-> "FileNotFoundError"]
       ELSE /\ nb_rows' = r
            /\ nb_cols' = c
            /\ cells' = npy_load(files[filename])
            /\ iteration' = 0
            /\ params' = p
            /\ last' = [op |-> "from_filename", err |-> NoError]
    /\ neighbors' = None
    /\ UNCHANGED << globals_bound, is_running, selected_cell, add_pattern_mode, files >>

----------------------------------------------------------------------------
(* Controller, src/game_controller.py, and the callbacks of                *)
(* ApplicationWindow, src/main.py.                                         *)

\* Controller.step_run, lines 67-83, called once per cycle of the driver
step_run ==
    /\ ~no_engine
    /\ IF is_running
       THEN \* lines 72-78: self._matrix.update()
            IF globals_bound
            THEN /\ iteration < MaxIter
                 /\ cells' = next_cells(cells, params, nb_rows, nb_cols)
                 /\ iteration' = next_iteration(iteration)
                 /\ selected_cell' = selected_cell
                 /\ last' = [op |-> "step_run", err |-> NoError]
            ELSE /\ UNCHANGED << cells, iteration, selected_cell >>
                 /\ last' = [op |-> "step_run", err |-> "NameError"]
       ELSE IF selected_cell # None
       THEN \* lines 80-83: x, y = self._selected_cell; change_cell(y, x)
            IF change_cell_raises(selected_cell[2], selected_cell[1])
            THEN /\ UNCHANGED << cells, iteration, selected_cell >>
                 /\ last' = [op |-> "step_run", err |-> "IndexError"]
            ELSE /\ cells' = toggled(cells, selected_cell[2], selected_cell[1])
                 /\ selected_cell' = None
                 /\ iteration' = iteration
                 /\ last' = [op |-> "step_run", err |-> NoError]
       ELSE /\ UNCHANGED << cells, iteration, selected_cell >>
            /\ last' = [op |-> "step_run", err |-> NoError]
    /\ neighbors' = None
    /\ UNCHANGED << nb_rows, nb_cols, params, globals_bound, is_running, add_pattern_mode, files >>

\* ApplicationWindow.play_clicked_action, src/main.py lines 109-111
play_clicked_action ==
    /\ ~no_engine
    /\ is_running' = ~is_running
    /\ last' = [op |-> "play_clicked_action", err |-> NoError]
    /\ UNCHANGED << nb_rows, nb_cols, cells, iteration, params, globals_bound,
                    neighbors, selected_cell, add_pattern_mode, files >>

\* ApplicationWindow.add_pattern_action, src/main.py lines 113-114
add_pattern_action ==
    /\ ~no_engine
    /\ add_pattern_mode' = ~add_pattern_mode
    /\ last' = [op |-> "add_pattern_action", err |-> NoError]
    /\ UNCHANGED << nb_rows, nb_cols, cells, iteration, params, globals_bound,
                    neighbors, is_running, selected_cell, files >>

\* ApplicationWindow._onclick, src/main.py lines 160-184.  x and y are
\* int(event.xdata + 0.5) and int(event.ydata + 0.5); lines is the content of
\* the file of the selected pattern, read only in the add-pattern mode.
onclick(dblclick, button, x, y, lines) ==
    /\ ~no_engine
    /\ IF dblclick
       THEN /\ is_running' = ~is_running
            /\ UNCHANGED << cells, selected_cell >>
            /\ last' = [op |-> "_onclick", err |-> NoError]
       ELSE IF button = 1
       THEN IF add_pattern_mode
            THEN \* lines 179-182: add_pattern(load_pattern(filename), pos=(y, x));
                 \* a one-dimensional pattern fails to unpack at src/matrix.py line 61
                 /\ IF \/ loadtxt_raises(lines)
                       \/ loadtxt_one_dimension(lines)
                       \/ add_pattern_raises(formatted_data(lines), << y, x >>)
                    THEN /\ cells' = cells
                         /\ last' = [op |-> "_onclick", err |-> "ValueError"]
                    ELSE /\ cells' = with_pattern(cells, formatted_data(lines), << y, x >>)
                         /\ last' = [op |-> "_onclick", err |-> NoError]
                 /\ UNCHANGED << is_running, selected_cell >>
            ELSE \* line 184: the selected_cell setter, src/game_controller.py lines 37-40
                 /\ selected_cell' = << x, y >>
                 /\ UNCHANGED << cells, is_running >>
                 /\ last' = [op |-> "_onclick", err |-> NoError]
       ELSE /\ UNCHANGED << cells, is_running, selected_cell >>
            /\ last' = [op |-> "_onclick", err |-> NoError]
    /\ neighbors' = None
    /\ UNCHANGED << nb_rows, nb_cols, iteration, params, globals_bound, add_pattern_mode, files >>

----------------------------------------------------------------------------
(* SpecNeighbors: _nb_alive_neighbors on every grid of at most MaxCells    *)
(* cells and every grid up to SparseDim x SparseDim with at most MaxAlive  *)
(* live cells.                                                             *)

InitNeighbors ==
    /\ \E d \in Shapes(MaxCells) \cup ((1..SparseDim) \X (1..SparseDim)) :
          /\ nb_rows = d[1]
          /\ nb_cols = d[2]
          /\ cells \in (IF d \in Shapes(MaxCells) THEN Grids(d[1], d[2]) ELSE {})
                       \cup (IF d[1] <= SparseDim /\ d[2] <= SparseDim
                             THEN SparseGrids(d[1], d[2]) ELSE {})
    /\ iteration = 0
    /\ params = << 2, 3, 3, 3 >>
    /\ globals_bound \in BOOLEAN
    /\ neighbors = None
    /\ is_running = FALSE
    /\ selected_cell = None
    /\ add_pattern_mode = FALSE
    /\ files = NoFiles
    /\ last = [op |-> "__init__", err |-> NoError]

NextNeighbors == call_nb_alive_neighbors

SpecNeighbors == InitNeighbors /\ [][NextNeighbors]_vars

\* the live cells among the up to eight in-grid positions around (i, j)
naive_count(m, rows, cols, i, j) ==
    Cardinality({ d \in { -1, 0, 1 } \X { -1, 0, 1 } :
                    /\ d # << 0, 0 >>
                    /\ i + d[1] \in 1..rows
                    /\ j + d[2] \in 1..cols
                    /\ m[i + d[1]][j + d[2]] })

\* C2: the matrix _nb_alive_neighbors returns has the grid's shape and holds,
\* at every cell, the naive count of live cells among the in-grid positions
\* around it: positions outside the grid count zero, nothing wraps around.
C2_NeighborsAreNaiveCount ==
    neighbors # None =>
        /\ Len(neighbors) = nb_rows
        /\ \A i \in 1..nb_rows :
              /\ Len(neighbors[i]) = nb_cols
              /\ \A j \in 1..nb_cols :
                    neighbors[i][j] = naive_count(cells, nb_rows, nb_cols, i, j)

\* C2: counted on a 6 x 6 grid whose only live cell is the code's (5, 5):
\* the count at the code's (0, 0) is 0 and at (4, 4) it is 1
C2_Witness ==
    /\ neighbors # None
    /\ cells = GridOf(6, 6, { << 6, 6 >> })
    /\ neighbors[1][1] = 0
    /\ neighbors[5][5] = 1

----------------------------------------------------------------------------
(* SpecUpdate: engines of every shape of at most MaxCells cells and every  *)
(* rule of RuleSet, constructed and stepped as the loop of lines 160-171   *)
(* does, with matrix.py as the entry script or imported.                   *)

InitUpdate == start

NextUpdate ==
    \/ update
    \/ \E p \in RuleSet, d \in Shapes(MaxCells), pct \in PctSet :
            construct(p, d[1], d[2], pct)

SpecUpdate == InitUpdate /\ [][NextUpdate]_vars

\* the step is a call of update() that returned
UpdateReturned == last'.op = "update" /\ last'.err = NoError

AllDead(m) == \A i \in 1..Len(m) : \A j \in 1..Len(m[i]) : ~m[i][j]

\* C1: after an update() that returns, each cell is alive iff it was alive
\* with min_alive <= n <= max_alive or dead with min_dead <= n <= max_dead,
\* n being its naive neighbor count in the grid before the step.
C1_UpdateAppliesRule ==
    [][UpdateReturned =>
        \A i \in 1..nb_rows : \A j \in 1..nb_cols :
            LET n == naive_count(cells, nb_rows, nb_cols, i, j)
            IN  cells'[i][j] <=>
                    \/ cells[i][j] /\ params[1] <= n /\ n <= params[2]
                    \/ (~cells[i][j]) /\ params[3] <= n /\ n <= params[4]]_vars

\* C1: the classic rule has turned a horizontal blinker into a vertical one
C1_Witness ==
    /\ last = [op |-> "update", err |-> NoError]
    /\ params = << 2, 3, 3, 3 >>
    /\ iteration = 1
    /\ cells = GridOf(3, 3, { << 1, 2 >>, << 2, 2 >>, << 3, 2 >> })

\* C4: an update() that returns adds exactly 1 to the iteration counter and
\* leaves nb_rows, nb_cols and the shape of the cell matrix as they were.
C4_UpdateCountsOnce ==
    [][UpdateReturned =>
        /\ iteration' = iteration + 1
        /\ nb_rows' = nb_rows
        /\ nb_cols' = nb_cols
        /\ Len(cells') = nb_rows
        /\ \A i \in 1..nb_rows : Len(cells'[i]) = nb_cols]_vars

\* C4: a non-square engine after MaxIter generations
C4_Witness ==
    /\ last = [op |-> "update", err |-> NoError]
    /\ iteration = MaxIter
    /\ nb_rows = 2
    /\ nb_cols = 4

\* C8: when min_dead > 0, an update() of an all-dead grid leaves it all-dead
\* (so it stays all-dead through any number of steps).
C8_AllDeadStaysDead ==
    [][(last'.op = "update" /\ AllDead(cells) /\ params[3] > 0) => AllDead(cells')]_vars

\* C8: an all-dead grid after MaxIter generations of a rule with min_dead = 1
C8_Witness ==
    /\ last = [op |-> "update", err |-> NoError]
    /\ iteration = MaxIter
    /\ params = << 0, 8, 1, 8 >>
    /\ nb_rows = 3
    /\ nb_cols = 3
    /\ AllDead(cells)

\* the rule invariant of the data model: thresholds in 0..8, min <= max
rule_consistent(p) ==
    /\ \A k \in 1..4 : p[k] \in 0..8
    /\ p[1] <= p[2]
    /\ p[3] <= p[4]

\* C10: no engine with an inconsistent rule is ever constructed.
C10_NoInconsistentEngine == ~no_engine => rule_consistent(params)

\* C11: with the matrix module imported, no call of update() on a constructed
\* engine ends with an exception.
C11_StepNeverFails ==
    (~globals_bound /\ last.op = "update") => last.err = NoError

----------------------------------------------------------------------------
(* SpecMatrix: a client that imports matrix, as src/main.py does,         *)
(* constructs an engine with the classic rule and edits it with           *)
(* change_cell and add_pattern, with in-range, negative and too large     *)
(* coordinates.                                                            *)

\* the coordinates given for an axis of length n: -(n + 1) .. n
Coords(n) == (0 - (n + 1))..n

\* the origins given to add_pattern for an axis of length n: -2 .. n
Origins(n) == (0 - 2)..n

\* the patterns of shape (h, w): all alive, all dead, first row and last
\* column alive
Patterns(h, w) ==
    { Filled(h, w, TRUE), Filled(h, w, FALSE), [i \in 1..h |-> [j \in 1..w |-> i = 1 \/ j = w]] }

PatternSet == UNION { Patterns(h, w) : h \in 1..MaxPat, w \in 1..MaxPat }

InitMatrix == start /\ ~globals_bound

NextMatrix ==
    \/ \E r \in 1..MaxRows, c \in 1..MaxCols, pct \in PctSet :
            construct(<< 2, 3, 3, 3 >>, r, c, pct)
    \/ \E x \in Coords(nb_rows), y \in Coords(nb_cols) : change_cell(x, y)
    \/ \E x \in Coords(nb_rows), y \in Coords(nb_cols) : change_cell_twice(x, y)
    \/ \E pattern \in PatternSet, x \in Origins(nb_rows), y \in Origins(nb_cols) :
            add_pattern(pattern, << x, y >>)

SpecMatrix == InitMatrix /\ [][NextMatrix]_vars

\* the block of the pattern placed at pos lies inside the grid
fits(pattern, pos) ==
    /\ 0 <= pos[1]
    /\ pos[1] + pattern_width(pattern) <= nb_rows
    /\ 0 <= pos[2]
    /\ pos[2] + pattern_height(pattern) <= nb_cols

\* C5: an add_pattern whose block exceeds the grid extents (negative origin
\* included) fails and leaves every cell unchanged.
C5_OutOfBoundsPatternRejected ==
    [][last'.op = "add_pattern" =>
        \A pattern \in PatternSet, x \in Origins(nb_rows), y \in Origins(nb_cols) :
          (add_pattern(pattern, << x, y >>) /\ ~fits(pattern, << x, y >>))
              => (last'.err # NoError /\ cells' = cells)]_vars

\* C6: a change_cell with row outside [0, rows) or col outside [0, cols)
\* fails and changes no cell.
C6_OutOfBoundsToggleRejected ==
    [][last'.op = "change_cell" =>
        \A x \in Coords(nb_rows), y \in Coords(nb_cols) :
          (change_cell(x, y) /\ ~(x \in 0..(nb_rows - 1) /\ y \in 0..(nb_cols - 1)))
              => (last'.err # NoError /\ cells' = cells)]_vars

\* C7: for in-range (r, c), one change_cell(r, c) flips the cell (r, c) and
\* no other, a second one in succession restores the grid, and so two in
\* succession leave every cell as it was.
C7_ToggleIsInvolution ==
    [][last'.op \in { "change_cell", "change_cell twice" } =>
        \A x \in 0..(nb_rows - 1), y \in 0..(nb_cols - 1) :
          /\ change_cell(x, y) =>
                /\ last'.err = NoError
                /\ \A i \in 1..nb_rows : \A j \in 1..nb_cols :
                      cells'[i][j] = (IF i = x + 1 /\ j = y + 1 THEN ~cells[i][j] ELSE cells[i][j])
                /\ toggled(cells', x, y) = cells
          /\ change_cell_twice(x, y) => (last'.err = NoError /\ cells' = cells)]_vars

\* C7: a grid with live and dead cells after two successive change_cell calls
C7_Witness ==
    /\ last = [op |-> "change_cell twice", err |-> NoError]
    /\ cells = GridOf(2, 2, { << 1, 2 >> })

----------------------------------------------------------------------------
(* SpecPattern: add_pattern as a function of the engine and its arguments. *)
(* The engine is any grid up to MaxRows x MaxCols (every such grid is      *)
(* reachable through __init__ with 0 < init_live_pct < 1), the call is     *)
(* made once, with every pattern of PatternSet at every origin, and its    *)
(* arguments are kept in last.                                             *)

\* add_pattern(pattern, pos), remembering what it was called with
add_pattern_call(pattern, pos) ==
    /\ ~no_engine
    /\ IF add_pattern_raises(pattern, pos)
       THEN /\ cells' = cells
            /\ last' = [op |-> "add_pattern", err |-> "ValueError",
                        pattern |-> pattern, pos |-> pos]
       ELSE /\ cells' = with_pattern(cells, pattern, pos)
            /\ last' = [op |-> "add_pattern", err |-> NoError,
                        pattern |-> pattern, pos |-> pos]
    /\ neighbors' = None
    /\ UNCHANGED << nb_rows, nb_cols, iteration, params, globals_bound,
                    is_running, selected_cell, add_pattern_mode, files >>

InitPattern ==
    /\ \E r \in 1..MaxRows, c \in 1..MaxCols :
          /\ nb_rows = r
          /\ nb_cols = c
          /\ cells \in random_cells(r, c, 50)
    /\ iteration = 0
    /\ params = << 2, 3, 3, 3 >>
    /\ globals_bound = FALSE
    /\ neighbors = None
    /\ is_running = FALSE
    /\ selected_cell = None
    /\ add_pattern_mode = FALSE
    /\ files = NoFiles
    /\ last = [op |-> "__init__", err |-> NoError]

NextPattern ==
    /\ last.op = "__init__"
    /\ \E pattern \in PatternSet, x \in Origins(nb_rows), y \in Origins(nb_cols) :
            add_pattern_call(pattern, << x, y >>)

SpecPattern == InitPattern /\ [][NextPattern]_vars

\* C12: an add_pattern whose block fits inside the grid returns, sets the cell
\* (origin row + i, origin column + j) to pattern[i][j] for every entry of the
\* pattern, leaves every cell outside the block and the iteration counter
\* unchanged.
C12_FittingPatternOverwritesBlock ==
    [][(last'.op = "add_pattern" /\ fits(last'.pattern, last'.pos)) =>
        /\ last'.err = NoError
        /\ iteration' = iteration
        /\ \A i \in 1..nb_rows : \A j \in 1..nb_cols :
              cells'[i][j] =
                  (IF /\ i - last'.pos[1] \in 1..pattern_width(last'.pattern)
                      /\ j - last'.pos[2] \in 1..pattern_height(last'.pattern)
                   THEN last'.pattern[i - last'.pos[1]][j - last'.pos[2]]
                   ELSE cells[i][j])]_vars

\* C12: a 1 x 1 dead pattern written at the origin (1, 0) of a 2 x 2 grid
\* whose other cells are alive
C12_Witness ==
    /\ last = [op |-> "add_pattern", err |-> NoError,
               pattern |-> << << FALSE >> >>, pos |-> << 1, 0 >>]
    /\ cells = GridOf(2, 2, { << 1, 1 >>, << 1, 2 >>, << 2, 2 >> })

----------------------------------------------------------------------------
(* SpecSnapshot: save and from_filename as functions of the engine and of  *)
(* data_folder.  The engine is any grid up to MaxRows x MaxCols; the       *)
(* folder, which outlives the program, holds nothing or what an earlier    *)
(* save of such a grid wrote; the client saves, then loads, or loads       *)
(* at once, giving from_filename any dimensions.                           *)

\* a file name that is never written
MissingName == "missing.npy"

InitSnapshot ==
    /\ \E r \in 1..MaxRows, c \in 1..MaxCols :
          /\ nb_rows = r
          /\ nb_cols = c
          /\ cells \in random_cells(r, c, 50)
    /\ iteration = 0
    /\ params = << 2, 3, 3, 3 >>
    /\ globals_bound = FALSE
    /\ neighbors = None
    /\ is_running = FALSE
    /\ selected_cell = None
    /\ add_pattern_mode = FALSE
    /\ files \in [FileNames -> { None } \cup
                     { npy_save(m) : m \in UNION { Grids(d[1], d[2]) :
                                        d \in (1..MaxRows) \X (1..MaxCols) } }]
    /\ last = [op |-> "__init__", err |-> NoError]

NextSnapshot ==
    \/ /\ last.op = "__init__"
       /\ \E filename \in FileNames : save(filename)
    \/ /\ last.op \in { "__init__", "save" }
       /\ \E r \in 1..MaxRows, c \in 1..MaxCols, filename \in FileNames \cup { MissingName } :
             from_filename(<< 2, 3, 3, 3 >>, r, c, filename)

SpecSnapshot == InitSnapshot /\ [][NextSnapshot]_vars

\* C13: save leaves the engine as it was and writes a file from which a load
\* gives a matrix of the same shape and values as the cells; from_filename
\* gives the engine exactly the matrix the file loads to.
C13_SaveLoadRoundTrip ==
    [][/\ last'.op = "save" =>
            /\ cells' = cells
            /\ nb_rows' = nb_rows /\ nb_cols' = nb_cols /\ iteration' = iteration
            /\ \E n \in FileNames :
                  /\ files'[n] # None
                  /\ npy_load(files'[n]) = cells
                  /\ \A o \in FileNames \ { n } : files'[o] = files[o]
       /\ (last'.op = "from_filename" /\ last'.err = NoError /\ last.op = "save") =>
            cells' = cells]_vars

\* C13: a grid that is not symmetric, saved and loaded back
C13_Witness ==
    /\ last = [op |-> "from_filename", err |-> NoError]
    /\ nb_rows = 2
    /\ nb_cols = 2
    /\ cells = GridOf(2, 2, { << 1, 2 >> })
    /\ files["a.npy"] = npy_save(cells)

\* C17: the cell matrix of an engine has the shape (nb_rows, nb_cols) the
\* engine was constructed with, and each of its cells is a boolean.
C17_ShapeIsFixed ==
    ~no_engine =>
        /\ Len(cells) = nb_rows
        /\ \A i \in 1..Len(cells) :
              /\ Len(cells[i]) = nb_cols
              /\ \A j \in 1..Len(cells[i]) : cells[i][j] \in BOOLEAN

----------------------------------------------------------------------------
(* SpecLoader: load_pattern as a function of the text of the file: up to   *)
(* MaxLines lines of up to MaxLineLen characters 'O' or '.', each ended by *)
(* a line feed, the last one possibly not.                                  *)

\* the lines without their terminators
LineContents == UNION { [1..k -> { "O", "." }] : k \in 0..MaxLineLen }

\* what readlines() returns for the texts of n lines
RECURSIVE TextsOf(_)
TextsOf(n) ==
    IF n = 1
    THEN { << c \o << "\n" >> >> : c \in LineContents }
         \cup { << c >> : c \in LineContents \ { << >> } }
    ELSE { << c \o << "\n" >> >> \o t : c \in LineContents, t \in TextsOf(n - 1) }

TextFiles == UNION { TextsOf(n) : n \in 1..MaxLines }

InitLoader == start /\ ~globals_bound

NextLoader == last.op = "start" /\ \E lines \in TextFiles : load_pattern(lines)

SpecLoader == InitLoader /\ [][NextLoader]_vars

\* line i of the text without its line terminator
stripped(line) ==
    IF Len(line) > 0 /\ line[Len(line)] = "\n" THEN SubSeq(line, 1, Len(line) - 1) ELSE line

\* the length of the longest line of the text, terminators not counted
max_line_length(lines) ==
    CHOOSE n \in 0..(MaxLineLen + 1) :
        /\ \E k \in 1..Len(lines) : Len(stripped(lines[k])) = n
        /\ \A k \in 1..Len(lines) : Len(stripped(lines[k])) <= n

\* C14: load_pattern of a non-empty text returns, without failing, a matrix of
\* number_of_lines x max_line_length whose entry (i, j) is alive iff
\* character j of line i is 'O', shorter lines being padded dead.
C14_LoaderPadsRaggedLines ==
    last.op = "load_pattern" =>
        /\ last.err = NoError
        /\ last.shape = << Len(last.lines), max_line_length(last.lines) >>
        /\ \A i \in 1..Len(last.lines) : \A j \in 1..max_line_length(last.lines) :
              (j <= Len(last.data[i]) /\ last.data[i][j])
                  <=> (j <= Len(stripped(last.lines[i])) /\ last.lines[i][j] = "O")

----------------------------------------------------------------------------
(* SpecGlider: a GliderDim x GliderDim engine with the classic rule,       *)
(* seeded with a glider in any of its eight orientations at any offset     *)
(* from which it stays inside the grid while it moves one cell diagonally; *)
(* the client saves the seed, then steps the engine.                        *)

\* the textbook glider in its 3 x 3 box, moving one row down and one column
\* right every 4 generations
glider_box == { << 1, 2 >>, << 2, 3 >>, << 3, 1 >>, << 3, 2 >>, << 3, 3 >> }

\* an orientation o = [tr, fr, fc]: the box transposed, then flipped top to
\* bottom, then left to right
Orientations == [tr : BOOLEAN, fr : BOOLEAN, fc : BOOLEAN]

oriented(o) ==
    { << (IF o.fr THEN 4 - (IF o.tr THEN q[2] ELSE q[1]) ELSE (IF o.tr THEN q[2] ELSE q[1])),
         (IF o.fc THEN 4 - (IF o.tr THEN q[1] ELSE q[2]) ELSE (IF o.tr THEN q[1] ELSE q[2])) >> :
      q \in glider_box }

\* the direction in which the oriented glider moves
row_step(o) == IF o.fr THEN -1 ELSE 1
col_step(o) == IF o.fc THEN -1 ELSE 1

\* the grid holding the oriented glider with its box at offset (r0, c0)
glider(o, r0, c0) ==
    GridOf(GliderDim, GliderDim, { << r0 + q[1], c0 + q[2] >> : q \in oriented(o) })

\* the offsets at which a box lies inside the grid
BoxOffsets == 0..(GliderDim - 3)

\* the orientations and offsets from which the glider stays inside the grid
GliderSeeds ==
    { g \in Orientations \X BoxOffsets \X BoxOffsets :
        /\ g[2] + row_step(g[1]) \in BoxOffsets
        /\ g[3] + col_step(g[1]) \in BoxOffsets }

InitGlider ==
    /\ nb_rows = GliderDim
    /\ nb_cols = GliderDim
    /\ cells \in { glider(g[1], g[2], g[3]) : g \in GliderSeeds }
    /\ iteration = 0
    /\ params = << 2, 3, 3, 3 >>
    /\ globals_bound \in BOOLEAN
    /\ neighbors = None
    /\ is_running = FALSE
    /\ selected_cell = None
    /\ add_pattern_mode = FALSE
    /\ files = NoFiles
    /\ last = [op |-> "__init__", err |-> NoError]

NextGlider ==
    \/ /\ last.op = "__init__"
       /\ \E filename \in FileNames : save(filename)
    \/ /\ last.op # "__init__"
       /\ update

SpecGlider == InitGlider /\ [][NextGlider]_vars

\* C15: after 4 update() calls on a grid seeded with a glider that stays
\* inside, the cells are exactly that glider moved by one row and one column
\* in its direction, every other cell dead.
C15_GliderMovesDiagonally ==
    (iteration = 4 /\ last = [op |-> "update", err |-> NoError]) =>
        \A g \in GliderSeeds :
            npy_load(files["a.npy"]) = glider(g[1], g[2], g[3])
                => cells = glider(g[1], g[2] + row_step(g[1]), g[3] + col_step(g[1]))

\* C15: the textbook glider seeded at the top left corner, 4 generations on
C15_Witness ==
    /\ iteration = 4
    /\ last = [op |-> "update", err |-> NoError]
    /\ npy_load(files["a.npy"]) =
           GridOf(5, 5, { << 1, 2 >>, << 2, 3 >>, << 3, 1 >>, << 3, 2 >>, << 3, 3 >> })
    /\ cells = GridOf(5, 5, { << 2, 3 >>, << 3, 4 >>, << 4, 2 >>, << 4, 3 >>, << 4, 4 >> })

----------------------------------------------------------------------------
(* Spec: the program of src/main.py.  run() constructs an all-dead engine  *)
(* with the classic rule and a stopped Controller; then the window's      *)
(* callbacks and the driver's calls of step_run interleave.  matrix is    *)
(* imported, so time and logger are not bound in it.                       *)

\* the cell coordinates a click gives for an axis of length n (the view can
\* be panned beyond the grid): -1 .. n
Clicks(n) == (0 - 1)..n

\* the file that draws the pattern, one line per row, 'O' alive and '.' dead,
\* with or without a terminator on its last line
pattern_file(pattern, final_newline) ==
    [k \in 1..Len(pattern) |->
        [c \in 1..Len(pattern[k]) |-> IF pattern[k][c] THEN "O" ELSE "."]
        \o (IF k < Len(pattern) \/ final_newline THEN << "\n" >> ELSE << >>)]

PatternFiles == { pattern_file(pattern, nl) : pattern \in PatternSet, nl \in BOOLEAN }

Init == start /\ ~globals_bound

Next ==
    \/ \E r \in 1..MaxRows, c \in 1..MaxCols : construct(<< 2, 3, 3, 3 >>, r, c, 0)
    \/ play_clicked_action
    \/ add_pattern_action
    \/ \E dblclick \in BOOLEAN, button \in { 1, 3 }, x \in Clicks(nb_cols),
          y \in Clicks(nb_rows),
          lines \in (IF add_pattern_mode THEN PatternFiles ELSE { << >> }) :
            onclick(dblclick, button, x, y, lines)
    \/ step_run

Spec == Init /\ [][Next]_vars

\* C3: each step_run does exactly one of three things: running, it advances
\* one generation and leaves the pending edit alone; else with a pending
\* edit (x, y) it toggles exactly the grid cell of row y and column x, clears
\* the pending edit and leaves the iteration counter; else it changes nothing.
C3_TickDoesOneThing ==
    [][last'.op = "step_run" =>
        IF is_running
        THEN /\ iteration' = iteration + 1
             /\ selected_cell' = selected_cell
        ELSE IF selected_cell # None
        THEN /\ selected_cell[2] \in 0..(nb_rows - 1)
             /\ selected_cell[1] \in 0..(nb_cols - 1)
             /\ \A i \in 1..nb_rows : \A j \in 1..nb_cols :
                   cells'[i][j] = (IF i = selected_cell[2] + 1 /\ j = selected_cell[1] + 1
                                   THEN ~cells[i][j] ELSE cells[i][j])
             /\ selected_cell' = None
             /\ iteration' = iteration
        ELSE /\ cells' = cells
             /\ iteration' = iteration
             /\ selected_cell' = selected_cell]_vars

\* C9: a click while the controller is running never stores a coordinate in
\* the pending-edit slot.
C9_NoSelectionWhileRunning ==
    [][(is_running /\ last'.op = "_onclick") => selected_cell' = selected_cell]_vars

----------------------------------------------------------------------------
(* SpecEngine: one engine of at most EngineCells cells under any sequence  *)
(* of the operations of Matrix and Controller: update, change_cell,        *)
(* add_pattern, save, the selected_cell and is_running setters (through    *)
(* the window's callbacks) and step_run.  The client is main.py's, where   *)
(* time and logger are not bound in matrix, or one that has bound them.    *)

EnginePatterns == UNION { Patterns(d[1], d[2]) : d \in Shapes(EngineCells) }

\* the (row, column) given to change_cell and clicked: every cell of the
\* grid, one position before it and one beyond it
EngineCoords ==
    ((0..(nb_rows - 1)) \X (0..(nb_cols - 1))) \cup { << -1, -1 >>, << nb_rows, nb_cols >> }

InitEngine == start

NextEngine ==
    \/ \E d \in Shapes(EngineCells), pct \in PctSet :
            construct(<< 2, 3, 3, 3 >>, d[1], d[2], pct)
    \/ update
    \/ \E q \in EngineCoords : change_cell(q[1], q[2])
    \/ \E pattern \in EnginePatterns, x \in 0..(nb_rows - 1), y \in 0..(nb_cols - 1) :
            add_pattern(pattern, << x, y >>)
    \/ \E filename \in FileNames : save(filename)
    \/ \E q \in EngineCoords : onclick(FALSE, 1, q[2], q[1], << >>)
    \/ play_clicked_action
    \/ step_run

SpecEngine == InitEngine /\ [][NextEngine]_vars

\* the step performed a generation: an update() that returned, called
\* directly or by step_run while running
StepPerformed ==
    /\ last'.err = NoError
    /\ \/ last'.op = "update"
       \/ last'.op = "step_run" /\ is_running

\* C16: the iteration counter is 0 when the engine is constructed; every
\* step performed adds exactly 1 to it and no other operation (change_cell,
\* add_pattern, save, selecting a cell, starting or stopping, a step_run that
\* performs no step) changes it, so it counts the steps performed and never
\* decreases or resets.
C16_IterationCountsSteps ==
    [][IF no_engine
       THEN iteration' = 0
       ELSE iteration' = iteration + (IF StepPerformed THEN 1 ELSE 0)]_vars

\* C16: an engine that was stepped to MaxIter, then edited while stopped
\* through a pending selection
C16_Witness ==
    /\ iteration = MaxIter
    /\ last = [op |-> "step_run", err |-> NoError]
    /\ ~is_running
    /\ files["a.npy"] # None
    /\ cells = GridOf(1, 2, { << 1, 2 >> })

====
